---------------------------- MODULE Spec2Model ----------------------------
(***************************************************************************)
(* A model of txs (src/src/main.rs): a single-node ledger.  Blocks are     *)
(* hash-linked and kept in a key-value store under their hash, the key     *)
(* "tip" names the newest block, and value moves between addresses as      *)
(* unspent outputs.                                                        *)
(*                                                                         *)
(* Strings that are addresses or command words are TLA+ strings.  Strings  *)
(* that are hex digests (transaction ids, block hashes, prev_hash) are     *)
(* numbers: the empty string is 0, and the digest of a byte string is its  *)
(* position in the list of the byte strings digested so far, so that equal *)
(* contents give equal digests and different contents different digests.   *)
(* The operators that hash take that list (`known`) and return it grown.   *)
(***************************************************************************)
EXTENDS Integers, Sequences, FiniteSets, TLC

(* ------------------------------- bounds -------------------------------- *)

\* Blocks appended to one store (genesis included) before the model stops
\* appending.
MaxChain == 3

\* The clock reads 0..MaxTime milliseconds.
MaxTime == 1

\* send is called with amounts 0, DemoAmount, ..., MaxUnits * DemoAmount.
MaxUnits == 2

\* Block records a store may hold that were written by a run killed before
\* it wrote the tip.
MaxCrashes == 1

(* -------------------------- program constants -------------------------- *)

\* main.rs:48, the amount of the coinbase output.
Reward == 100

\* main.rs:246, the amount main passes to send.
DemoAmount == 10

\* main.rs:47, the index of the coinbase input.
SentinelIndex == -1

\* main.rs:48, the owner of the coinbase output.
Bootstrap == "dog"

\* The addresses callers pass; main also passes "" for a missing argument.
Addrs == {"dog", "cat"}
AllAddrs == Addrs \cup {""}
Amounts == {k * DemoAmount : k \in 0..MaxUnits}

(* ------------------------------ digests -------------------------------- *)

\* "".to_owned() where the string is a digest (txid, prev_hash).
EmptyStr == 0

\* format!("{:x}", hash.result()) for the bytes fed to Sha256::default():
\* deterministic and collision-free.
Sha256(known, bytes) ==
  IF \E i \in DOMAIN known : known[i] = bytes
    THEN CHOOSE i \in DOMAIN known : known[i] = bytes
    ELSE Len(known) + 1

\* The byte strings digested so far, once `bytes` has been digested.
learn(known, bytes) ==
  IF \E i \in DOMAIN known : known[i] = bytes THEN known
                                               ELSE Append(known, bytes)

\* Option<T> as returned by db.get.
None == <<>>
Some(v) == <<v>>

(* ---------------------- Input, Output, Transaction --------------------- *)

Input(txid, index, sig) == [txid |-> txid, index |-> index, sig |-> sig]

Output(amount, pubkey) == [amount |-> amount, pubkey |-> pubkey]

unlocked_by(out, addr) == out.pubkey = addr

\* bincode of the fields in declaration order.
encode(tx) == <<"tx", tx.id, tx.inputs, tx.outputs>>

hash(known, tx) == Sha256(known, encode(tx))

\* Transaction::new: the transaction, hashed with its id empty.
Transaction_new(known, inputs, outputs) ==
  LET tx == [id |-> EmptyStr, inputs |-> inputs, outputs |-> outputs]
  IN  [tx    |-> [tx EXCEPT !.id = hash(known, tx)],
       known |-> learn(known, encode(tx))]

coinbase(known) ==
  Transaction_new(known, <<Input(EmptyStr, SentinelIndex, "")>>,
                  <<Output(Reward, Bootstrap)>>)

is_coinbase(tx) ==
  /\ Len(tx.inputs) = 1
  /\ tx.inputs[1].txid = EmptyStr
  /\ tx.inputs[1].index = SentinelIndex

(* -------------------------------- Block -------------------------------- *)

\* Block::new with the clock reading ts: the bytes hashed are the
\* timestamp, the encoded transactions and prev_hash.
Block_new(known, txs, prev_hash, ts) ==
  LET bytes == <<"block", ts, [i \in DOMAIN txs |-> encode(txs[i])], prev_hash>>
  IN  [block |-> [timestamp    |-> ts,
                  transactions |-> txs,
                  prev_hash    |-> prev_hash,
                  hash         |-> Sha256(known, bytes)],
       known |-> learn(known, bytes)]

\* The store: block records by hash, and the value under the key "tip".
EmptyDb == [blocks |-> <<>>, tip |-> None]

db_put_block(d, block) ==
  [d EXCEPT !.blocks = (block.hash :> block) @@ d.blocks]

db_put_tip(d, h) == [d EXCEPT !.tip = Some(h)]

\* Faulty variant of save: the tip is not written.
save_block_only(block, d) == db_put_block(d, block)

\* Block::save: the block record, then the tip.
save(block, d) == db_put_tip(db_put_block(d, block), block.hash)

(* ------------------------------ Blockchain ----------------------------- *)

\* Faulty variant of blocks_loop: each block is put in front of those walked before.
RECURSIVE blocks_loop_front(_, _, _, _)
blocks_loop_front(d, tip, acc, fuel) ==
  IF tip = EmptyStr THEN [status |-> "ok", blocks |-> acc]
  ELSE IF tip \notin DOMAIN d.blocks THEN [status |-> "panic", blocks |-> acc]
  ELSE IF fuel = 0 THEN [status |-> "diverges", blocks |-> acc]
  ELSE LET block == d.blocks[tip]
       IN  blocks_loop_front(d, block.prev_hash, <<block>> \o acc, fuel - 1)

\* Blockchain::blocks: the walk from tip along prev_hash.  status is "ok"
\* when the walk reaches "", "panic" when a get finds no record (unwrap),
\* "diverges" when the walk would visit more records than the store holds.
RECURSIVE blocks_loop(_, _, _, _)
blocks_loop(d, tip, acc, fuel) ==
  IF tip = EmptyStr THEN [status |-> "ok", blocks |-> acc]
  ELSE IF tip \notin DOMAIN d.blocks THEN [status |-> "panic", blocks |-> acc]
  ELSE IF fuel = 0 THEN [status |-> "diverges", blocks |-> acc]
  ELSE LET block == d.blocks[tip]
       IN  blocks_loop(d, block.prev_hash, Append(acc, block), fuel - 1)

blocks_walk(d, tip) == blocks_loop(d, tip, <<>>, Cardinality(DOMAIN d.blocks))

blocks(d, tip) == blocks_walk(d, tip).blocks


\* Vec<i8> membership as tested by the loop at main.rs:155-159.
has_index(idxs, i) == \E k \in DOMAIN idxs : idxs[k] = i

\* spent.get(&tx.id), with no entry read as the empty list.
index_get(map, txid) == IF txid \in DOMAIN map THEN map[txid] ELSE <<>>

\* map.entry(txid).or_insert(vec!()).push(index)
index_push(map, txid, index) ==
  (txid :> Append(index_get(map, txid), index)) @@ map

\* Faulty variant of unspent_pushes: the transaction is pushed once, however
\* many of its outputs match.
unspent_pushes_once(tx, addr, spent) ==
  LET hits == {i \in DOMAIN tx.outputs :
                 /\ ~has_index(index_get(spent, tx.id), i - 1)
                 /\ unlocked_by(tx.outputs[i], addr)}
  IN  [k \in 1..(IF hits = {} THEN 0 ELSE 1) |-> tx]

\* main.rs:153-164: the transaction, once for every output that is not
\* recorded spent and is unlocked by addr.
unspent_pushes(tx, addr, spent) ==
  LET hits == {i \in DOMAIN tx.outputs :
                 /\ ~has_index(index_get(spent, tx.id), i - 1)
                 /\ unlocked_by(tx.outputs[i], addr)}
  IN  [k \in 1..Cardinality(hits) |-> tx]

\* Faulty variant of mark_spent: every input is recorded, whoever signed it.
RECURSIVE mark_spent_any(_, _, _)
mark_spent_any(inputs, addr, spent) ==
  IF inputs = <<>> THEN spent
  ELSE LET input == Head(inputs)
       IN  mark_spent_any(Tail(inputs), addr,
                          index_push(spent, input.txid, input.index))

\* main.rs:166-170: record the inputs signed by addr.
RECURSIVE mark_spent(_, _, _)
mark_spent(inputs, addr, spent) ==
  IF inputs = <<>> THEN spent
  ELSE LET input == Head(inputs)
       IN  mark_spent(Tail(inputs), addr,
                      IF input.sig = addr
                        THEN index_push(spent, input.txid, input.index)
                        ELSE spent)

\* main.rs:152-172 over the transactions of the walked blocks, in order.
RECURSIVE unspent_txs_loop(_, _, _, _)
unspent_txs_loop(txs, addr, spent, unspent) ==
  IF txs = <<>> THEN unspent
  ELSE LET tx == Head(txs)
       IN  unspent_txs_loop(
             Tail(txs), addr,
             IF is_coinbase(tx) THEN spent ELSE mark_spent(tx.inputs, addr, spent),
             unspent \o unspent_pushes(tx, addr, spent))

\* The transactions of a sequence of blocks, block by block.
RECURSIVE all_txs(_)
all_txs(bs) ==
  IF bs = <<>> THEN <<>> ELSE Head(bs).transactions \o all_txs(Tail(bs))

unspent_txs(d, tip, addr) ==
  unspent_txs_loop(all_txs(blocks(d, tip)), addr, <<>>, <<>>)

\* The outputs of tx unlocked by addr, in index order (main.rs:180-184).
owned_outputs(tx, addr) ==
  SelectSeq(tx.outputs, LAMBDA out : unlocked_by(out, addr))

RECURSIVE utxos_loop(_, _)
utxos_loop(txs, addr) ==
  IF txs = <<>> THEN <<>>
  ELSE owned_outputs(Head(txs), addr) \o utxos_loop(Tail(txs), addr)

utxos(d, tip, addr) == utxos_loop(unspent_txs(d, tip, addr), addr)

RECURSIVE fold_amount(_)
fold_amount(outs) ==
  IF outs = <<>> THEN 0 ELSE Head(outs).amount + fold_amount(Tail(outs))

balance(d, tip, addr) == fold_amount(utxos(d, tip, addr))

\* Faulty variant of select_outputs: the break is taken after the first output
\* selected, whether the sum covers the amount or not.
RECURSIVE select_outputs_break(_, _, _, _, _)
select_outputs_break(tx, i, addr, amount, acc) ==
  IF i > Len(tx.outputs) \/ acc.done THEN acc
  ELSE IF unlocked_by(tx.outputs[i], addr) /\ acc.sum < amount
    THEN [sum  |-> acc.sum + tx.outputs[i].amount,
          outs |-> index_push(acc.outs, tx.id, i - 1),
          done |-> TRUE]
    ELSE select_outputs_break(tx, i + 1, addr, amount, acc)

\* Faulty variant of select_outputs: every owned output is selected,
\* whatever the sum.
RECURSIVE select_outputs_all(_, _, _, _, _)
select_outputs_all(tx, i, addr, amount, acc) ==
  IF i > Len(tx.outputs) THEN acc
  ELSE IF unlocked_by(tx.outputs[i], addr)
    THEN select_outputs_all(tx, i + 1, addr, amount,
           [sum  |-> acc.sum + tx.outputs[i].amount,
            outs |-> index_push(acc.outs, tx.id, i - 1),
            done |-> FALSE])
    ELSE select_outputs_all(tx, i + 1, addr, amount, acc)

\* main.rs:197-205 for one transaction: acc is [sum, outs, done].
RECURSIVE select_outputs(_, _, _, _, _)
select_outputs(tx, i, addr, amount, acc) ==
  IF i > Len(tx.outputs) \/ acc.done THEN acc
  ELSE IF unlocked_by(tx.outputs[i], addr) /\ acc.sum < amount
    THEN LET sum == acc.sum + tx.outputs[i].amount
         IN  select_outputs(tx, i + 1, addr, amount,
               [sum  |-> sum,
                outs |-> index_push(acc.outs, tx.id, i - 1),
                done |-> sum >= amount])
    ELSE select_outputs(tx, i + 1, addr, amount, acc)

RECURSIVE unspent_outputs_loop(_, _, _, _)
unspent_outputs_loop(txs, addr, amount, acc) ==
  IF txs = <<>> \/ acc.done THEN acc
  ELSE unspent_outputs_loop(Tail(txs), addr, amount,
                            select_outputs(Head(txs), 1, addr, amount, acc))

\* Blockchain::unspent_outputs: (sum, unspent_outs).
unspent_outputs(d, tip, addr, amount) ==
  LET acc == unspent_outputs_loop(unspent_txs(d, tip, addr), addr, amount,
                                  [sum |-> 0, outs |-> <<>>, done |-> FALSE])
  IN  [sum |-> acc.sum, outs |-> acc.outs]

\* The orders in which a HashMap with these keys can be iterated.
KeyOrders(keys) ==
  {o \in [1..Cardinality(keys) -> keys] :
     \A i, j \in DOMAIN o : i # j => o[i] # o[j]}

\* Faulty variant of build_inputs: the inputs carry no authorizer.
RECURSIVE build_inputs_unsigned(_, _, _)
build_inputs_unsigned(order, outs, from) ==
  IF order = <<>> THEN <<>>
  ELSE LET txid == Head(order)
       IN  [k \in DOMAIN outs[txid] |-> Input(txid, outs[txid][k], "")]
             \o build_inputs_unsigned(Tail(order), outs, from)

\* main.rs:216-220: one input per selected index, the keys in order.
RECURSIVE build_inputs(_, _, _)
build_inputs(order, outs, from) ==
  IF order = <<>> THEN <<>>
  ELSE LET txid == Head(order)
       IN  [k \in DOMAIN outs[txid] |-> Input(txid, outs[txid][k], from)]
             \o build_inputs(Tail(order), outs, from)

\* Faulty variant of build_outputs: the change output is pushed when sum = amount
\* too.
build_outputs_always_change(from, to, amount, sum) ==
  <<Output(amount, to)>>
    \o (IF sum >= amount THEN <<Output(sum - amount, from)>> ELSE <<>>)

\* main.rs:221-224.
build_outputs(from, to, amount, sum) ==
  <<Output(amount, to)>>
    \o (IF sum > amount THEN <<Output(sum - amount, from)>> ELSE <<>>)

\* Blockchain::send once the funds suffice, for one iteration order of
\* unspent_outs.
send_tx(known, sel, order, from, to, amount) ==
  Transaction_new(known, build_inputs(order, sel.outs, from),
                  build_outputs(from, to, amount, sel.sum))

\* Faulty variant of insufficient: only an empty selection is refused.
insufficient_if_empty(sel, amount) == sel.sum = 0 /\ amount > 0

\* main.rs:212-214.
insufficient(sel, amount) == sel.sum < amount

(* ------------------------- construction and add ------------------------ *)

\* Faulty variant of Blockchain_new: the stored tip is not looked up, genesis is
\* written at every construction.
Blockchain_new_always(d, known, ts) ==
  LET cb == coinbase(known)
      b  == Block_new(cb.known, <<cb.tx>>, EmptyStr, ts)
  IN  [db |-> save(b.block, d), tip |-> b.block.hash, known |-> b.known]

\* Blockchain::new against store d, the clock reading ts: the store it
\* leaves and the in-memory tip.
Blockchain_new(d, known, ts) ==
  IF d.tip # None
    THEN [db |-> d, tip |-> d.tip[1], known |-> known]
    ELSE LET cb == coinbase(known)
             b  == Block_new(cb.known, <<cb.tx>>, EmptyStr, ts)
         IN  [db |-> save(b.block, d), tip |-> b.block.hash, known |-> b.known]

\* Faulty variant of add: the new block is not linked to the tip.
add_unlinked(d, known, tip, txs, ts) ==
  LET b == Block_new(known, txs, EmptyStr, ts)
  IN  [db |-> save(b.block, d), tip |-> b.block.hash, block |-> b.block,
       known |-> b.known]

\* Blockchain::add on an instance with in-memory tip `tip`.
add(d, known, tip, txs, ts) ==
  LET b == Block_new(known, txs, tip, ts)
  IN  [db |-> save(b.block, d), tip |-> b.block.hash, block |-> b.block,
       known |-> b.known]

\* chain.add(vec!(chain.send(from, to, amount))), as in main.rs:246-247, on
\* an instance with in-memory tip `tip`, the clock last read at t0: the
\* results it can have, one for every reading of the clock in Block::new
\* and every iteration order of the HashMap at main.rs:216.  send panics on
\* insufficient funds, before add is reached.
transfer(d, known, tip, from, to, amount, t0) ==
  LET sel == unspent_outputs(d, tip, from, amount)
  IN  IF insufficient(sel, amount)
        THEN {[outcome |-> "insufficient funds", db |-> d, tip |-> tip,
               sum |-> sel.sum, saved |-> <<>>, clock |-> t0,
               known |-> known]}
        ELSE {LET t == send_tx(known, sel, order, from, to, amount)
                  r == add(d, t.known, tip, <<t.tx>>, ts)
              IN  [outcome |-> "ok", db |-> r.db, tip |-> r.tip,
                   sum |-> sel.sum, saved |-> <<r.block>>, clock |-> ts,
                   known |-> r.known] :
                order \in KeyOrders(DOMAIN sel.outs), ts \in t0..MaxTime}

(* ------------------------------- main ---------------------------------- *)

\* main.rs:231-236; argv is the command line without the program name.
parse_args(argv) ==
  CASE Len(argv) = 1 -> <<argv[1], "", "">>
    [] Len(argv) = 2 -> <<argv[1], argv[2], "">>
    [] Len(argv) = 3 -> <<argv[1], argv[2], argv[3]>>
    [] OTHER         -> <<"", "", "">>

\* main.rs:238-250: the arm the parsed arguments select.
arm(args) ==
  IF args = <<"blocks", "", "">> THEN "blocks"
  ELSE IF args[1] = "balance" /\ args[3] = "" THEN "balance"
  ELSE IF args[1] = "send" THEN "send"
  ELSE "bad args"

\* The command lines tried, without the program name: every shape main
\* tells apart.
Argvs ==
  {<<>>, <<"blocks">>, <<"balance">>, <<"send">>, <<"help">>,
   <<"blocks", "dog">>, <<"balance", "dog">>, <<"send", "dog">>,
   <<"balance", "dog", "cat">>, <<"send", "dog", "cat", "dog">>}
  \cup {<<"send", a, b>> : a \in Addrs, b \in Addrs}

\* main.rs:237-250 against store d, the clock last read at t0: the results
\* a run can have.  Blockchain::new comes first, whatever the arguments.
run(d, known, argv, t0) ==
  LET args == parse_args(argv)
  IN  UNION {
        LET c    == Blockchain_new(d, known, t1)
            born == IF d.tip = None THEN <<c.db.blocks[c.tip]>> ELSE <<>>
            read == IF d.tip = None THEN t1 ELSE t0
        IN  CASE arm(args) \in {"blocks", "balance"} ->
                   {[outcome |-> "ok", db |-> c.db, saved |-> born,
                     clock |-> read, known |-> c.known]}
              [] arm(args) = "send" ->
                   {[outcome |-> r.outcome, db |-> r.db,
                     saved |-> born \o r.saved, clock |-> r.clock,
                     known |-> r.known] :
                      r \in transfer(c.db, c.known, c.tip, args[2], args[3],
                                     DemoAmount, read)}
              [] OTHER ->
                   {[outcome |-> "bad args", db |-> c.db, saved |-> born,
                     clock |-> read, known |-> c.known]} :
        t1 \in IF d.tip = None THEN t0..MaxTime ELSE {t0}}

(* ------------------------------- state --------------------------------- *)

VARIABLES
  db,        \* the store under ./data
  chain,     \* the Blockchain instance of the running process, if any
  now,       \* the last reading of the system clock, in milliseconds
  digests,   \* the byte strings digested so far (see Sha256)
  appended,  \* history: the hashes of the blocks saved, oldest first
  last       \* what the last operation reported: "ok", or the message of its
             \* panic or of its usage error

vars == <<db, chain, now, digests, appended, last>>

\* born: this instance found no tip and wrote the genesis block.
NoChain == [open |-> FALSE, tip |-> EmptyStr, born |-> FALSE]

Init ==
  /\ db = EmptyDb
  /\ chain = NoChain
  /\ now = 0
  /\ digests = <<>>
  /\ appended = <<>>
  /\ last = "none"

\* The hashes of a sequence of blocks.
hashes(bs) == [i \in DOMAIN bs |-> bs[i].hash]

\* let mut chain = Blockchain::new(); the store is locked while an instance
\* is open.
New ==
  /\ ~chain.open
  /\ \E ts \in (IF db.tip = None THEN now..MaxTime ELSE {now}) :
       LET r == Blockchain_new(db, digests, ts)
       IN  /\ db' = r.db
           /\ chain' = [open |-> TRUE, tip |-> r.tip, born |-> db.tip = None]
           /\ appended' = IF db.tip = None THEN Append(appended, r.tip)
                                           ELSE appended
           /\ digests' = r.known
           /\ now' = ts
  /\ last' = "ok"

\* A transfer on the open instance.  The panic of send unwinds and drops
\* the instance.
Transfer(from, to, amount) ==
  /\ chain.open
  /\ \E r \in transfer(db, digests, chain.tip, from, to, amount, now) :
       /\ Len(appended) + Len(r.saved) <= MaxChain
       /\ db' = r.db
       /\ chain' = IF r.outcome = "ok" THEN [chain EXCEPT !.tip = r.tip]
                                       ELSE NoChain
       /\ appended' = appended \o hashes(r.saved)
       /\ digests' = r.known
       /\ now' = r.clock
       /\ last' = r.outcome

\* chain.blocks()
ListBlocks ==
  /\ chain.open
  /\ blocks_walk(db, chain.tip).status = "ok"
  /\ last' = "ok"
  /\ UNCHANGED <<db, chain, now, digests, appended>>

\* chain.balance(addr)
QueryBalance(addr) ==
  /\ chain.open
  /\ blocks_walk(db, chain.tip).status = "ok"
  /\ last' = "ok"
  /\ UNCHANGED <<db, chain, now, digests, appended>>

\* The instance goes out of scope.
Drop ==
  /\ chain.open
  /\ chain' = NoChain
  /\ last' = "ok"
  /\ UNCHANGED <<db, now, digests, appended>>

\* One run of the program, from argument parsing to exit.
Main(argv) ==
  /\ ~chain.open
  /\ \E r \in run(db, digests, argv, now) :
       /\ Len(appended) + Len(r.saved) <= MaxChain
       /\ db' = r.db
       /\ appended' = appended \o hashes(r.saved)
       /\ digests' = r.known
       /\ now' = r.clock
       /\ last' = r.outcome
  /\ UNCHANGED chain

Next ==
  \/ New
  \/ \E from \in Addrs, to \in Addrs, amount \in Amounts :
       Transfer(from, to, amount)
  \/ ListBlocks
  \/ \E addr \in AllAddrs : QueryBalance(addr)
  \/ Drop
  \/ \E argv \in Argvs : Main(argv)

Spec == Init /\ [][Next]_vars

(* ------------------------- reading the state --------------------------- *)

\* The tip a new instance would load: the value under "tip", "" if absent.
StoredTip == IF db.tip = None THEN EmptyStr ELSE db.tip[1]

Balance(addr) == balance(db, StoredTip, addr)

Chain == blocks(db, StoredTip)

Reverse(seq) == [i \in DOMAIN seq |-> seq[Len(seq) + 1 - i]]

\* The hash of the block saved last.
LastAppended == appended[Len(appended)]

\* The transactions of the chain that are not coinbase.
Transfers == SelectSeq(all_txs(Chain), LAMBDA tx : ~is_coinbase(tx))

(* ------------------------- runs that are killed ------------------------ *)

\* Faulty variant of save_interrupted: the process is killed after the put
\* of the tip.
save_completed(block, d) == save(block, d)

\* Faulty variant of save_interrupted: the tip is put first, and the process
\* is killed before the put of the block.
save_tip_first(block, d) == db_put_tip(d, block.hash)

\* Block::save when the process is killed after the put at main.rs:103 and
\* before the put at main.rs:104.
save_interrupted(block, d) == db_put_block(d, block)

\* main against store d when the process is killed inside a Block::save:
\* the save of the genesis block in Blockchain::new (store without a tip),
\* or the save of chain.add in the send arm.  `lost` is the block whose
\* record was written without the tip.
run_killed(d, known, argv, t0) ==
  LET args == parse_args(argv)
  IN  UNION {
        LET c    == Blockchain_new(d, known, t1)
            born == IF d.tip = None THEN <<c.db.blocks[c.tip]>> ELSE <<>>
            read == IF d.tip = None THEN t1 ELSE t0
        IN  (IF d.tip = None
               THEN {[outcome |-> "killed in new",
                      db |-> save_interrupted(born[1], d), lost |-> born[1],
                      saved |-> <<>>, clock |-> t1, known |-> c.known]}
               ELSE {})
            \cup
            (IF arm(args) = "send"
               THEN {[outcome |-> "killed in add",
                      db |-> save_interrupted(r.saved[1], c.db),
                      lost |-> r.saved[1], saved |-> born, clock |-> r.clock,
                      known |-> r.known] :
                       r \in {x \in transfer(c.db, c.known, c.tip, args[2],
                                             args[3], DemoAmount, read) :
                                x.outcome = "ok"}}
               ELSE {}) :
        t1 \in IF d.tip = None THEN t0..MaxTime ELSE {t0}}

\* The block records of store d that no completed save wrote.
orphans(d, done) == DOMAIN d.blocks \ {done[i] : i \in DOMAIN done}

\* One run of the program that is killed inside a Block::save.
MainKilled(argv) ==
  /\ ~chain.open
  /\ \E r \in run_killed(db, digests, argv, now) :
       /\ Len(appended) + Len(r.saved) < MaxChain
       /\ Cardinality(orphans(r.db, appended \o hashes(r.saved))) <= MaxCrashes
       /\ db' = r.db
       /\ appended' = appended \o hashes(r.saved)
       /\ digests' = r.known
       /\ now' = r.clock
       /\ last' = r.outcome
  /\ UNCHANGED chain

\* The command lines of the three commands: blocks, balance <address>,
\* send <from> <to>.
Commands ==
  {<<"blocks">>, <<"balance", "dog">>}
    \cup {<<"send", a, b>> : a \in Addrs, b \in Addrs}

\* The commands run again and again against one store, some runs killed.
NextCrash ==
  \/ \E argv \in Commands : Main(argv)
  \/ \E argv \in Commands : MainKilled(argv)

SpecCrash == Init /\ [][NextCrash]_vars

Orphans == orphans(db, appended)

(* ------------------- add with the caller's transactions ---------------- *)

\* The outputs of a sequence of transactions, as <<position, index from 1>>.
OutputRefs(txs) ==
  UNION {{<<t, i>> : i \in DOMAIN txs[t].outputs} : t \in DOMAIN txs}

\* Transactions a caller of add can build with Transaction::new: one input
\* that refers to an output of txs, authorized by any address, and one
\* output that pays the amount referred to.
handmade(known, txs) ==
  {Transaction_new(known,
                   <<Input(txs[p[1]].id, p[2] - 1, sig)>>,
                   <<Output(txs[p[1]].outputs[p[2]].amount, to)>>) :
     p \in OutputRefs(txs), sig \in Addrs, to \in Addrs}

\* chain.add(vec!(tx)) for such a transaction, on an instance with in-memory
\* tip `tip`, the clock last read at t0.
add_handmade(d, known, tip, t0) ==
  {LET r == add(d, t.known, tip, <<t.tx>>, ts)
   IN  [db |-> r.db, tip |-> r.tip, block |-> r.block, known |-> r.known,
        clock |-> ts] :
     t \in handmade(known, all_txs(blocks(d, tip))), ts \in t0..MaxTime}

AddHandmade ==
  /\ chain.open
  /\ Len(appended) < MaxChain
  /\ \E r \in add_handmade(db, digests, chain.tip, now) :
       /\ db' = r.db
       /\ chain' = [chain EXCEPT !.tip = r.tip]
       /\ appended' = Append(appended, r.block.hash)
       /\ digests' = r.known
       /\ now' = r.clock
  /\ last' = "added"

\* One instance on which transfers and adds of such transactions alternate.
NextAdd ==
  \/ New
  \/ \E from \in Addrs, to \in Addrs : Transfer(from, to, DemoAmount)
  \/ AddHandmade

SpecAdd == Init /\ [][NextAdd]_vars

(* ------------------------------- claims -------------------------------- *)

\* C1 (as claimed): on a fresh store dog holds 100 and every other address
\* 0; and a transfer between two different addresses with amount <=
\* balance(from) appends exactly one block, lowers balance(from) by exactly
\* amount and raises balance(to) by exactly amount.
C1_TransferMovesAmount ==
  /\ [](Len(appended) = 1 =>
          /\ Balance("dog") = Reward
          /\ \A a \in AllAddrs \ {"dog"} : Balance(a) = 0)
  /\ [][\A from \in Addrs, to \in Addrs, amount \in Amounts :
          (/\ from # to
           /\ amount <= Balance(from)
           /\ Transfer(from, to, amount))
          => /\ last' = "ok"
             /\ Len(Chain') = Len(Chain) + 1
             /\ Balance(from)' = Balance(from) - amount
             /\ Balance(to)' = Balance(to) + amount]_vars

\* C2: for every amount > balance(from) the transfer fails with
\* "insufficient funds", builds no transaction (nothing is hashed) and
\* leaves the store as it was: no block record is added, the stored tip and
\* the walk from it are unchanged.  The same holds
\* of the send arm of main on an initialized store.
C2_InsufficientFundsWritesNothing ==
  /\ chain.open =>
       \A from \in AllAddrs :
         LET held == balance(db, chain.tip, from)
         IN  \A to \in Addrs, amount \in Amounts :
               amount > held =>
                 \A r \in transfer(db, digests, chain.tip, from, to, amount, now) :
                   /\ r.outcome = "insufficient funds"
                   /\ r.saved = <<>>
                   /\ r.known = digests
                   /\ DOMAIN r.db.blocks = DOMAIN db.blocks
                   /\ r.db.tip = db.tip
                   /\ blocks(r.db, r.tip) = blocks(db, chain.tip)
  /\ (~chain.open /\ db.tip # None) =>
       \A argv \in Argvs :
         (/\ arm(parse_args(argv)) = "send"
          /\ DemoAmount > Balance(parse_args(argv)[2])) =>
           \A r \in run(db, digests, argv, now) :
             /\ r.outcome = "insufficient funds"
             /\ r.db = db

\* C2 witness: a transfer on an initialized store has just failed.
C2_Witness ==
  /\ last = "insufficient funds"
  /\ db.tip = Some(LastAppended)
  /\ Balance("cat") < DemoAmount

\* C3: a construction against a store that holds a tip writes nothing and
\* loads the tip the previous instance left, and the store never holds a
\* second genesis block.
C3_SecondConstructionLoadsTip ==
  /\ Cardinality({h \in DOMAIN db.blocks :
                    db.blocks[h].prev_hash = EmptyStr}) <= 1
  /\ db.tip # None =>
       \A ts \in now..MaxTime :
         LET c == Blockchain_new(db, digests, ts)
         IN  /\ c.db = db
             /\ c.tip = LastAppended

\* C3 witness: an instance constructed against a store that another
\* instance had initialized and extended.
C3_Witness ==
  /\ chain.open
  /\ ~chain.born
  /\ Len(appended) >= 2
  /\ chain.tip = LastAppended

\* C4: while an instance is open, and after every run of the program, the
\* value under "tip" is the hash of the block saved last, and the in-memory
\* tip of an open instance equals it.
C4_TipNamesLastAppended ==
  /\ appended # <<>> => db.tip = Some(LastAppended)
  /\ chain.open => (appended # <<>> /\ chain.tip = LastAppended)

\* C4 witness: the instance that wrote genesis has completed an add.
C4_Witness ==
  /\ chain.open
  /\ chain.born
  /\ Len(appended) >= 2
  /\ last = "ok"

\* C5: every block walked from the tip, genesis excepted, has a non-empty
\* prev_hash that is the hash of the block saved just before it, whose
\* record is in the store; genesis alone has prev_hash = "".
C5_PrevHashLinks ==
  db.tip # None =>
    /\ blocks_walk(db, StoredTip).status = "ok"
    /\ \A i \in DOMAIN Chain :
         LET k == Len(appended) + 1 - i
         IN  /\ k >= 1
             /\ Chain[i].hash = appended[k]
             /\ IF k = 1
                  THEN Chain[i].prev_hash = EmptyStr
                  ELSE /\ Chain[i].prev_hash # EmptyStr
                       /\ Chain[i].prev_hash = appended[k - 1]
                       /\ Chain[i].prev_hash \in DOMAIN db.blocks
                       /\ db.blocks[Chain[i].prev_hash].hash = Chain[i].prev_hash

\* C5 witness: a chain of genesis and two more blocks.
C5_Witness ==
  /\ Len(Chain) = 3
  /\ Chain[1].prev_hash = Chain[2].hash
  /\ Chain[2].prev_hash = Chain[3].hash

\* C6: the walk from the tip ends at the block with prev_hash = "" after as
\* many links as adds were completed, and returns the blocks saved, newest
\* first, genesis last.
C6_WalkReturnsAppendedReversed ==
  db.tip # None =>
    /\ blocks_walk(db, StoredTip).status = "ok"
    /\ Len(Chain) = Len(appended)
    /\ hashes(Chain) = Reverse(appended)
    /\ Chain[Len(Chain)].prev_hash = EmptyStr
    /\ \A i \in 1..(Len(Chain) - 1) : Chain[i].prev_hash # EmptyStr

\* C6 witness: two adds since genesis, walked in two links.
C6_Witness ==
  /\ Len(appended) = 3
  /\ hashes(Chain) = <<appended[3], appended[2], appended[1]>>

\* The amount of the output an input refers to, looked up in the chain.
Referenced(txs, input) ==
  LET tx == CHOOSE t \in {txs[j] : j \in DOMAIN txs} : t.id = input.txid
  IN  tx.outputs[input.index + 1].amount

\* The total of the outputs of txs that the inputs refer to.
RECURSIVE InputsTotal(_, _)
InputsTotal(txs, inputs) ==
  IF inputs = <<>> THEN 0
  ELSE Referenced(txs, Head(inputs)) + InputsTotal(txs, Tail(inputs))

\* C7: whenever amount <= balance(address), the coin selector returns a
\* selected sum >= amount.
C7_SelectionCoversAmount ==
  db.tip # None =>
    \A addr \in AllAddrs :
      LET held == Balance(addr)
      IN  \A amount \in Amounts \cup {held} :
            amount <= held =>
              unspent_outputs(db, StoredTip, addr, amount).sum >= amount

\* C7 witness: the last transfer was built from a selection of two outputs
\* that together cover its amount.
C7_Witness ==
  /\ chain.open
  /\ last = "ok"
  /\ Len(appended) >= 2
  /\ Len(Chain[1].transactions[1].inputs) = 2
  /\ fold_amount(Chain[1].transactions[1].outputs) >= 2 * DemoAmount

\* C8: the transaction of a successful transfer has the output {amount, to}
\* first, then the one change output {selectedSum - amount, from} when
\* selectedSum > amount and nothing more when selectedSum = amount, so its
\* outputs add up to selectedSum, the total of the outputs its inputs
\* refer to.
C8_OutputsArePaymentThenChange ==
  chain.open =>
    LET txs == all_txs(blocks(db, chain.tip))
    IN  \A from \in AllAddrs, to \in AllAddrs, amount \in Amounts :
      \A r \in transfer(db, digests, chain.tip, from, to, amount, now) :
        r.outcome = "ok" =>
          LET tx == r.saved[1].transactions[1]
          IN  /\ Len(r.saved[1].transactions) = 1
              /\ r.sum >= amount
              /\ r.sum = InputsTotal(txs, tx.inputs)
              /\ tx.outputs[1] = Output(amount, to)
              /\ IF r.sum > amount
                   THEN /\ Len(tx.outputs) = 2
                        /\ tx.outputs[2] = Output(r.sum - amount, from)
                   ELSE Len(tx.outputs) = 1
              /\ fold_amount(tx.outputs) = r.sum

\* C8 witness: the chain holds a transfer with a change output and a
\* transfer of a positive amount without one.
C8_Witness ==
  \E i, j \in DOMAIN Transfers :
    /\ Len(Transfers[i].outputs) = 2
    /\ Transfers[i].outputs[2].amount > 0
    /\ Len(Transfers[j].outputs) = 1
    /\ Transfers[j].outputs[1].amount > 0

\* Whether output i (from 0) of the transaction with this id is referenced
\* by an input, authorized by addr, of a transaction of the chain.
SpentBy(addr, txid, i) ==
  \E j \in DOMAIN Transfers :
    \E k \in DOMAIN Transfers[j].inputs :
      /\ Transfers[j].inputs[k].sig = addr
      /\ Transfers[j].inputs[k].txid = txid
      /\ Transfers[j].inputs[k].index = i

\* The outputs of the chain owned by addr and not spent by it, each once.
RECURSIVE UnspentOf(_, _)
UnspentOf(txs, addr) ==
  IF txs = <<>> THEN <<>>
  ELSE LET tx   == Head(txs)
           keep == {i \in DOMAIN tx.outputs :
                      /\ unlocked_by(tx.outputs[i], addr)
                      /\ ~SpentBy(addr, tx.id, i - 1)}
       IN  SelectSeq([i \in DOMAIN tx.outputs |-> <<i, tx.outputs[i]>>],
                     LAMBDA p : p[1] \in keep)
             \o UnspentOf(Tail(txs), addr)

\* C9 (as claimed): every output utxos(address) returns is owned by address
\* and not referenced by an input authorized by address, and each such
\* output is returned, and counted by balance, exactly once.
C9_UtxosAreTheUnspentOutputsOnce ==
  db.tip # None =>
    \A addr \in AllAddrs :
      LET got  == utxos(db, StoredTip, addr)
          want == UnspentOf(all_txs(Chain), addr)
      IN  /\ \A i \in DOMAIN got : got[i].pubkey = addr
          /\ Len(got) = Len(want)
          /\ \A i \in DOMAIN got : got[i] = want[i][2]
          /\ Balance(addr) = fold_amount([i \in DOMAIN want |-> want[i][2]])

\* The argument shapes of the command surface: list-blocks,
\* balance <address>, transfer <from> <to>.
DocumentedShape(argv) ==
  \/ Len(argv) = 1 /\ argv[1] = "blocks"
  \/ Len(argv) = 2 /\ argv[1] = "balance"
  \/ Len(argv) = 3 /\ argv[1] = "send"

\* C10 (as claimed): a run with any other argument shape reports the usage
\* error and writes nothing to the store, whether the store holds a tip or
\* not.
C10_OtherShapesWriteNothing ==
  [][\A argv \in Argvs :
       (~DocumentedShape(argv) /\ Main(argv))
       => (last' = "bad args" /\ db' = db)]_vars


\* Whether the tip of store d, if present, names a block record of d from
\* which the walk ends at a block with prev_hash = "".
TipEndsAtGenesis(d) ==
  d.tip # None =>
    LET w == blocks_walk(d, d.tip[1])
    IN  /\ d.tip[1] \in DOMAIN d.blocks
        /\ w.status = "ok"
        /\ w.blocks[Len(w.blocks)].prev_hash = EmptyStr

\* C11: when a run is killed in Block::save between the put of the block
\* and the put of the tip during an add on an initialized store, the new
\* block is in the store under its hash, the stored tip still names the
\* previous block, a restart writes nothing, and the walk after the restart
\* returns the chain as it was before the add, without the new block.
C11_KilledAddLosesOnlyTheNewBlock ==
  db.tip # None =>
    /\ db.tip = Some(LastAppended)
    /\ \A argv \in Commands :
         \A r \in run_killed(db, digests, argv, now) :
           LET again == Blockchain_new(r.db, r.known, r.clock)
           IN  /\ r.outcome = "killed in add"
               /\ r.lost.hash \in DOMAIN r.db.blocks
               /\ r.db.blocks[r.lost.hash] = r.lost
               /\ r.db.tip = db.tip
               /\ r.lost.prev_hash = LastAppended
               /\ again.db = r.db
               /\ again.tip = LastAppended
               /\ blocks_walk(again.db, again.tip) = blocks_walk(db, StoredTip)
               /\ \A i \in DOMAIN Chain : Chain[i].hash # r.lost.hash

\* C11 witness: a send on an initialized store has just been killed; the
\* block it wrote follows the tip and is not walked.
C11_Witness ==
  /\ last = "killed in add"
  /\ db.tip = Some(LastAppended)
  /\ hashes(Chain) = Reverse(appended)
  /\ \E h \in Orphans : db.blocks[h].prev_hash = LastAppended

\* C19: in every store state, the state between the two puts of Block::save
\* (which is the state a kill at that point leaves) included, the key "tip"
\* is absent or holds the hash of a block record of the store, and the walk
\* from it ends at a block with prev_hash = "".
C19_TipNeverDangles ==
  /\ TipEndsAtGenesis(db)
  /\ \A argv \in Commands :
       \A r \in run_killed(db, digests, argv, now) : TipEndsAtGenesis(r.db)

\* C19 witness: a store with a tip, left by a killed run, that holds more
\* block records than the walk from the tip visits.
C19_Witness ==
  /\ last \in {"killed in new", "killed in add"}
  /\ db.tip # None
  /\ Cardinality(DOMAIN db.blocks) > Len(Chain)

\* C20 (as claimed): the store holds at most one block with prev_hash = "",
\* also when a construction was killed between the two puts of Block::save
\* and the ledger is constructed again against the same store.
C20_AtMostOneGenesis ==
  Cardinality({h \in DOMAIN db.blocks : db.blocks[h].prev_hash = EmptyStr}) <= 1


\* C12 (as claimed): no two transactions recorded in the chain, in the same
\* block or in different blocks, have the same id.
C12_TransactionIdsAreUnique ==
  LET txs == all_txs(Chain)
  IN  \A i, j \in DOMAIN txs : i # j => txs[i].id # txs[j].id

\* Whether some input of a transaction of txs refers to output i (from 0)
\* of the transaction with this id.
ReferencedIn(txs, txid, i) ==
  \E t \in DOMAIN txs :
    /\ ~is_coinbase(txs[t])
    /\ \E n \in DOMAIN txs[t].inputs :
         /\ txs[t].inputs[n].txid = txid
         /\ txs[t].inputs[n].index = i

\* C14 (as claimed): the selection of unspent_outputs(address, amount) holds
\* only outputs of the chain that address owns and that no input of a
\* transaction of the chain refers to, none of them twice; and no output is
\* referred to by two inputs of the chain.
C14_SelectionIsUnspentOnce ==
  db.tip # None =>
    LET txs == all_txs(Chain)
    IN  /\ \A addr \in AllAddrs :
             \A amount \in Amounts \cup {Balance(addr)} :
               LET outs == unspent_outputs(db, StoredTip, addr, amount).outs
               IN  \A txid \in DOMAIN outs :
                     /\ \A k \in DOMAIN outs[txid] :
                          LET i == outs[txid][k]
                          IN  /\ \E t \in DOMAIN txs :
                                   /\ txs[t].id = txid
                                   /\ i + 1 \in DOMAIN txs[t].outputs
                                   /\ unlocked_by(txs[t].outputs[i + 1], addr)
                              /\ ~ReferencedIn(txs, txid, i)
                     /\ \A k, m \in DOMAIN outs[txid] :
                          k # m => outs[txid][k] # outs[txid][m]
        /\ \A t, u \in DOMAIN txs :
             \A n \in DOMAIN txs[t].inputs, m \in DOMAIN txs[u].inputs :
               (/\ ~is_coinbase(txs[t])
                /\ <<t, n>> # <<u, m>>
                /\ txs[t].inputs[n].txid = txs[u].inputs[m].txid)
               => txs[t].inputs[n].index # txs[u].inputs[m].index

\* The total of balance(a) over the addresses of a set.
RECURSIVE TotalHeld(_)
TotalHeld(addrs) ==
  IF addrs = {} THEN 0
  ELSE LET a == CHOOSE x \in addrs : TRUE
       IN  Balance(a) + TotalHeld(addrs \ {a})

\* C17 (as claimed): on an initialized store the balances of all addresses
\* add up to the 100 units of the genesis coinbase, after any sequence of
\* transfers, self-transfers included.
C17_ValueIsConserved ==
  db.tip # None => TotalHeld(AllAddrs) = Reward


\* Whether an input authorized by addr, of a transaction of txs, refers to
\* output i (from 0) of the transaction with this id.
MarkedBy(txs, addr, txid, i) ==
  \E t \in DOMAIN txs :
    /\ ~is_coinbase(txs[t])
    /\ \E n \in DOMAIN txs[t].inputs :
         /\ txs[t].inputs[n].sig = addr
         /\ txs[t].inputs[n].txid = txid
         /\ txs[t].inputs[n].index = i

\* C13: a transaction of the chain with two outputs, both owned by X and
\* neither marked spent by X, is in unspent_txs(X) exactly twice.
C13_TwoOwnedOutputsListedTwice ==
  db.tip # None =>
    LET txs == all_txs(Chain)
    IN  \A addr \in AllAddrs :
          LET listed == unspent_txs(db, StoredTip, addr)
          IN  \A t \in DOMAIN txs :
                (/\ Len(txs[t].outputs) = 2
                 /\ \A i \in 1..2 :
                      /\ unlocked_by(txs[t].outputs[i], addr)
                      /\ ~MarkedBy(txs, addr, txs[t].id, i - 1))
                => Cardinality({k \in DOMAIN listed : listed[k] = txs[t]}) = 2

\* C13 witness: the transaction of a self-transfer with change, both outputs
\* unspent, is listed at positions 1 and 2 for its owner.
C13_Witness ==
  /\ Len(Chain) = 2
  /\ Len(Chain[1].transactions[1].outputs) = 2
  /\ \A i \in 1..2 : Chain[1].transactions[1].outputs[i].pubkey = "dog"
  /\ unspent_txs(db, StoredTip, "dog")
       = <<Chain[1].transactions[1], Chain[1].transactions[1]>>

\* The outputs unspent_outputs may select for addr, in the order it meets
\* them: the owned outputs of the listed transactions, in index order.
RECURSIVE Candidates(_, _)
Candidates(txs, addr) ==
  IF txs = <<>> THEN <<>>
  ELSE LET tx == Head(txs)
       IN  SelectSeq([i \in DOMAIN tx.outputs |->
                        [txid |-> tx.id, index |-> i - 1, out |-> tx.outputs[i]]],
                     LAMBDA c : unlocked_by(c.out, addr))
             \o Candidates(Tail(txs), addr)

\* The total of the first n candidates.
RECURSIVE PrefixSum(_, _)
PrefixSum(cands, n) ==
  IF n = 0 THEN 0 ELSE PrefixSum(cands, n - 1) + cands[n].out.amount

\* The selection that holds the first n candidates.
RECURSIVE PrefixMap(_, _)
PrefixMap(cands, n) ==
  IF n = 0 THEN <<>>
  ELSE index_push(PrefixMap(cands, n - 1), cands[n].txid, cands[n].index)

\* C15: the selection of unspent_outputs(address, amount) is a prefix of
\* the candidates in the order of unspent_txs, cut as soon as its sum
\* reaches amount: the selected outputs without the last add up to less
\* than amount, the prefix is the whole list only if nothing shorter covers
\* amount, and for amount = 0 the selection is empty with sum 0.
C15_SelectionIsGreedyPrefix ==
  db.tip # None =>
    \A addr \in AllAddrs :
      LET cands == Candidates(unspent_txs(db, StoredTip, addr), addr)
      IN  \A amount \in Amounts \cup {Balance(addr)} :
            LET sel == unspent_outputs(db, StoredTip, addr, amount)
            IN  /\ \E n \in 0..Len(cands) :
                     /\ sel.sum = PrefixSum(cands, n)
                     /\ sel.outs = PrefixMap(cands, n)
                     /\ n > 0 => PrefixSum(cands, n - 1) < amount
                     /\ n < Len(cands) => sel.sum >= amount
                /\ amount = 0 => (sel.sum = 0 /\ sel.outs = <<>>)

\* C15 witness: an address with two candidate outputs in two transactions,
\* of which a selection for 10 takes the first only.
C15_Witness ==
  /\ db.tip # None
  /\ \E addr \in Addrs :
       LET cands == Candidates(unspent_txs(db, StoredTip, addr), addr)
           sel   == unspent_outputs(db, StoredTip, addr, DemoAmount)
       IN  /\ Len(cands) = 2
           /\ cands[1].txid # cands[2].txid
           /\ sel.outs = PrefixMap(cands, 1)
           /\ sel.sum = DemoAmount

\* C18: every input of every transaction of the chain that is not coinbase
\* refers to an output of a transaction in an earlier block, under a valid
\* index, whose owner is the input's authorizer; the inputs of one
\* transaction have one authorizer, the sender, who also owns the change.
C18_InputsReferToOwnedEarlierOutputs ==
  db.tip # None =>
    LET ch == Chain
    IN  \A b \in DOMAIN ch :
          \A t \in DOMAIN ch[b].transactions :
            LET tx == ch[b].transactions[t]
            IN  ~is_coinbase(tx) =>
                  \A n \in DOMAIN tx.inputs :
                    /\ \E e \in (b + 1)..Len(ch) :
                         \E u \in DOMAIN ch[e].transactions :
                           LET src == ch[e].transactions[u]
                           IN  /\ src.id = tx.inputs[n].txid
                               /\ tx.inputs[n].index + 1 \in DOMAIN src.outputs
                               /\ unlocked_by(src.outputs[tx.inputs[n].index + 1],
                                              tx.inputs[n].sig)
                    /\ tx.inputs[n].sig = tx.inputs[1].sig
                    /\ Len(tx.outputs) = 2 =>
                         tx.outputs[2].pubkey = tx.inputs[n].sig

\* C18 witness: the newest transfer spends an output of the transfer in the
\* block before it.
C18_Witness ==
  /\ Len(Chain) = 3
  /\ Chain[1].transactions[1].inputs # <<>>
  /\ Chain[1].transactions[1].inputs[1].txid = Chain[2].transactions[1].id
  /\ Chain[1].transactions[1].inputs[1].sig = "cat"


\* C16: appending a block whose transactions have no input authorized by A
\* and no output owned by A leaves unspent_txs(A), utxos(A) and balance(A)
\* as they were, also when its inputs refer to outputs A owns.
C16_ForeignBlockLeavesViewUnchanged ==
  chain.open =>
    \A addr \in AllAddrs :
      LET listed == unspent_txs(db, chain.tip, addr)
          owned  == utxos(db, chain.tip, addr)
          held   == balance(db, chain.tip, addr)
      IN  \A r \in add_handmade(db, digests, chain.tip, now) :
            (\A t \in DOMAIN r.block.transactions :
               LET tx == r.block.transactions[t]
               IN  /\ \A n \in DOMAIN tx.inputs : tx.inputs[n].sig # addr
                   /\ \A i \in DOMAIN tx.outputs :
                        ~unlocked_by(tx.outputs[i], addr))
            => /\ unspent_txs(r.db, r.tip, addr) = listed
               /\ utxos(r.db, r.tip, addr) = owned
               /\ balance(r.db, r.tip, addr) = held

\* C16 witness: a block was added whose transaction, authorized by cat and
\* paying cat, refers to the coinbase output that dog owns, and dog still
\* holds the 100 units.
C16_Witness ==
  /\ last = "added"
  /\ Len(Chain) = 2
  /\ Chain[1].transactions[1].inputs[1].sig = "cat"
  /\ Chain[1].transactions[1].inputs[1].txid = Chain[2].transactions[1].id
  /\ Chain[1].transactions[1].outputs[1].pubkey = "cat"
  /\ Chain[2].transactions[1].outputs[1].pubkey = "dog"
  /\ Balance("dog") = Reward

=============================================================================
